---- MODULE Spec2Model ----
(***************************************************************************)
(* Model of package gache (src/gache.go): a cache that is itself a group   *)
(* of values and a registry of named groups.  Every group has a value map, *)
(* an expiration policy, a fill function and a mutex.  Goroutines are the  *)
(* threads of the model; every statement that touches shared state is one  *)
(* step, so that the windows in which group.Get holds no lock are visible. *)
(***************************************************************************)
EXTENDS Integers, FiniteSets, Sequences, TLC

\* ------------------------------------------------------------- bounds
\* The clock runs from 1 to MaxTime (time.Now().UnixNano(), never 0).
MaxTime == 2
\* Thread 1 invokes at most MaxOps operations in one behaviour, and every
\* other thread, running concurrently with it, at most MaxOther.
MaxOps == 3
MaxOther == 1
\* Group objects that can be allocated: the cache's embedded group plus
\* MaxGroups - 1 groups made by NewGroup.
MaxGroups == 3
\* Operations thread 1 invokes at most when it works on one name of the
\* registry and on the handle it got for it.
MaxHandleOps == 6

Threads == {1, 2}
Keys == {"a", "b"}
Names == {"g1", "g2"}
\* Payloads: thread t stores DataOf(t); "X" is what a fill function produces.
DataOf(t) == IF t = 1 THEN "v1" ELSE "v2"
\* time.Duration arguments handed to NewCache, NewGroup and SetExpiration.
Durations == {-1, 0, 1}
\* FillFunc values: nil, one that finds every key, one that finds none.
FillFuncs == {"nil", "fillX", "fillMiss"}
\* The (expiration, fillFunc) arguments handed to NewGroup.
GroupArgs == {<<-1, "nil">>, <<1, "fillX">>}

GroupIds == 1..MaxGroups
\* The *group embedded in the cache struct.
Default == 1
\* A nil *group.
NilGroup == 0

VARIABLES
    now,         \* the wall clock
    values,      \* values[g][k]: group g's map entry for k
    fillFunc,    \* fillFunc[g]
    expiration,  \* expiration[g]: the policy of group g
    mx,          \* mx[g]: the thread holding g's mutex, 0 when free
    groups,      \* groups[name]: the registry of the cache
    nalloc,      \* number of group objects allocated so far
    pc,          \* pc[t]: where thread t stands
    loc,         \* loc[t]: the locals of the call thread t is in
    h,           \* h[t]: the Group handle thread t got from cache.Group
    panicked,    \* a goroutine panicked: the process is gone
    hist,        \* hist[g][k]: the last Set or fill that wrote k (history)
    ret,         \* what the call that returned last returned, and to whom
    nops         \* nops[t]: operations thread t has invoked so far

vars == <<now, values, fillFunc, expiration, mx, groups, nalloc, pc, loc, h,
          panicked, hist, ret, nops>>

\* ------------------------------------------------------------- values
\* The zero value{} a map lookup yields together with ok = false.
Absent == [ok |-> FALSE, data |-> "nil", expiration |-> 0]

Entry(data, exp) == [ok |-> TRUE, data |-> data, expiration |-> exp]

EmptyMap == [k \in Keys |-> Absent]

\* A Get that leaves the stale entry in the map.
DeleteKeeps(m, k) == m

\* A delete that empties the map.
DeleteAll(m, k) == [j \in Keys |-> Absent]

\* delete(g.values, key)
Delete(m, k) == [m EXCEPT ![k] = Absent]

\* A write that stores the data and keeps the expiry of the entry it replaces.
StoreDataOnly(m, k, data, exp) == [m EXCEPT ![k] = Entry(data, m[k].expiration)]

\* g.values[key] = v
Store(m, k, data, exp) == [m EXCEPT ![k] = Entry(data, exp)]

\* NewCache and NewGroup: if expiration < 0 { expiration = 0 }
NormNeg(d) == IF d < 0 THEN 0 ELSE d

\* A SetExpiration that stores the duration as given.
NormExpirationAsGiven(d) == d

\* SetExpiration: if expiration <= 0 { expiration = 0 }
NormExpiration(d) == IF d <= 0 THEN 0 ELSE d

\* The hit test of Get: ok && (v.expiration == 0 || v.expiration > now)
Hit(v, tnow) == v.ok /\ (v.expiration = 0 \/ v.expiration > tnow)

\* Set: the expiry written under policy d at clock reading tnow.
SetExpiry(d, tnow) == IF d # 0 THEN tnow + d ELSE 0

\* now.Add(g.expiration).UnixNano()
AddNano(tnow, d) == tnow + d

\* What fill function f answers for key k: <<data, found>>.  fillCalls is a
\* fill function that finds every key and, asked for key "a", first makes one
\* call on the cache it fills.
FillResult(f, k) ==
    IF f \in {"fillX", "fillCalls"} THEN <<"X", TRUE>> ELSE <<"nil", FALSE>>

\* The fill function running with locals l has made its calls.
FillReturns(l) == ~(l.f = "fillCalls" /\ l.key = "a" /\ l.inner = 0)

\* ------------------------------------------------------------- locals
\* hist[g][k] is history, not program state: which call wrote k last (kind
\* "set" or "fill", by thread by as its n-th call), the data and expiry it
\* stored and the policy it read.  A Set or Del of k that is issued resets it.
\* A Get notes in prev what hist says when it looks its key up.  conc says
\* whether another thread was inside a call at any time during the call.
\* A fill function that calls back into the cache runs its call on the same
\* goroutine: outer holds the locals of the Get that called the fill function
\* while that call runs, and inner counts the calls the fill function made.
NoHist == [kind |-> "none", by |-> 0, n |-> 0, data |-> "nil", exp |-> 0,
           policy |-> 0, conc |-> FALSE]

Idle == [op |-> "none", g |-> NilGroup, key |-> "a", name |-> "g1",
         val |-> "nil", arg |-> 0, d |-> 0, f |-> "nil",
         v |-> Absent, found |-> FALSE, now |-> 0, called |-> 0,
         fr |-> "none", stale |-> FALSE, prev |-> NoHist, conc |-> FALSE,
         err |-> "none", inner |-> 0, outer |-> <<>>]

NoRet == [t |-> 0, n |-> 0, op |-> "none", g |-> NilGroup, key |-> "a",
          name |-> "g1", arg |-> 0, found |-> FALSE, data |-> "nil", now |-> 0,
          called |-> 0, fr |-> "none", stale |-> FALSE, prev |-> NoHist,
          conc |-> FALSE, err |-> "none"]

\* The process runs until a goroutine panics.  A call that returns leaves what
\* it returned in ret for one step, in which its caller takes it (Return).
Running == ~panicked /\ ret.op = "none"

\* Thread t moves on inside its call.
Goto(t, label, l) ==
    /\ pc' = [pc EXCEPT ![t] = label]
    /\ loc' = [loc EXCEPT ![t] = l]
    /\ ret' = ret

\* The call of thread t returns: the thread is idle again, its locals are
\* gone and ret holds what the call returned.  A call made by a fill function
\* returns into the fill function, which goes on inside the Get that called it.
Finish(t, l) ==
    IF l.outer = <<>>
    THEN /\ pc' = [pc EXCEPT ![t] = "idle"]
         /\ loc' = [loc EXCEPT ![t] = Idle]
         /\ ret' = [t |-> t, n |-> nops[t], op |-> l.op, g |-> l.g, key |-> l.key,
                    name |-> l.name, arg |-> l.arg, found |-> l.found,
                    data |-> l.v.data, now |-> l.now, called |-> l.called,
                    fr |-> l.fr, stale |-> l.stale, prev |-> l.prev,
                    conc |-> l.conc, err |-> l.err]
    ELSE /\ pc' = [pc EXCEPT ![t] = "get_fill"]
         /\ loc' = [loc EXCEPT ![t] = l.outer[1]]
         /\ ret' = ret

\* A Lock that does not wait for the mutex to be free.
LockNoWait(t, g) == mx' = [mx EXCEPT ![g] = t]

\* An Unlock that leaves the mutex held.
UnlockNot(t, g) == mx' = mx

\* sync.Mutex
Lock(t, g) == mx[g] = 0 /\ mx' = [mx EXCEPT ![g] = t]
Unlock(t, g) == mx' = [mx EXCEPT ![g] = 0]

\* A Del or Set on (g, k) is issued: what was written before is no longer
\* the last write a caller may rely on.
Forget(g, k) == [hist EXCEPT ![g][k] = NoHist]

\* ------------------------------------------------------------- Init
\* NewCache(expiration, fillFunc)
Init ==
    /\ now = 1
    /\ values = [g \in GroupIds |-> EmptyMap]
    /\ \E d \in Durations, f \in FillFuncs :
          /\ expiration = [g \in GroupIds |-> IF g = Default THEN NormNeg(d) ELSE 0]
          /\ fillFunc = [g \in GroupIds |-> IF g = Default THEN f ELSE "nil"]
    /\ mx = [g \in GroupIds |-> 0]
    /\ groups = [n \in Names |-> NilGroup]
    /\ nalloc = 1
    /\ pc = [t \in Threads |-> "idle"]
    /\ loc = [t \in Threads |-> Idle]
    /\ h = [t \in Threads |-> Default]
    /\ panicked = FALSE
    /\ hist = [g \in GroupIds |-> [k \in Keys |-> NoHist]]
    /\ ret = NoRet
    /\ nops = [t \in Threads |-> 0]

\* The groups a thread can address directly: the cache itself and the handle
\* it holds.
Handles(t) == {Default, h[t]}

Budget(t) == IF t = 1 THEN MaxOps ELSE MaxOther

CanCall(t) == pc[t] = "idle" /\ Running /\ nops[t] < Budget(t)

\* Thread t enters a call with locals l.
Invoke(t, label, l) ==
    /\ pc' = [pc EXCEPT ![t] = label]
    /\ loc' = [u \in Threads |->
                 IF u = t
                 THEN [l EXCEPT !.conc = \E w \in Threads \ {t} : pc[w] # "idle"]
                 ELSE IF pc[u] # "idle" THEN [loc[u] EXCEPT !.conc = TRUE]
                 ELSE loc[u]]
    /\ ret' = ret
    /\ nops' = [nops EXCEPT ![t] = @ + 1]

\* ------------------------------------------------------------- group.Get
GetCall(t) ==
    /\ CanCall(t)
    /\ \E g \in Handles(t), k \in Keys :
          Invoke(t, "get_lock", [Idle EXCEPT !.op = "Get", !.g = g, !.key = k])
    /\ UNCHANGED <<now, values, fillFunc, expiration, mx, groups, nalloc, h,
                   panicked, hist>>

\* line 143
GetLock(t) ==
    /\ pc[t] = "get_lock"
    /\ Running
    /\ Lock(t, loc[t].g)
    /\ Goto(t, "get_read", loc[t])
    /\ UNCHANGED <<now, values, fillFunc, expiration, groups, nalloc, h,
                   panicked, hist, nops>>

\* A Get that keeps the mutex locked after the lookup.
GetReadHoldsLock(t) ==
    /\ pc[t] = "get_read"
    /\ Running
    /\ Goto(t, "get_now",
            [loc[t] EXCEPT !.v = values[loc[t].g][loc[t].key],
                           !.stale = values[loc[t].g][loc[t].key].ok,
                           !.prev = hist[loc[t].g][loc[t].key]])
    /\ UNCHANGED <<now, values, fillFunc, expiration, mx, groups, nalloc, h,
                   panicked, hist, nops>>

\* lines 144-145
GetRead(t) ==
    /\ pc[t] = "get_read"
    /\ Running
    /\ Unlock(t, loc[t].g)
    /\ Goto(t, "get_now",
            [loc[t] EXCEPT !.v = values[loc[t].g][loc[t].key],
                           !.stale = values[loc[t].g][loc[t].key].ok,
                           !.prev = hist[loc[t].g][loc[t].key]])
    /\ UNCHANGED <<now, values, fillFunc, expiration, groups, nalloc, h,
                   panicked, hist, nops>>

\* lines 147-150
GetNow(t) ==
    /\ pc[t] = "get_now"
    /\ Running
    /\ IF Hit(loc[t].v, now)
       THEN Finish(t, [loc[t] EXCEPT !.now = now, !.found = TRUE])
       ELSE Goto(t, "get_chk", [loc[t] EXCEPT !.now = now])
    /\ UNCHANGED <<now, values, fillFunc, expiration, mx, groups, nalloc, h,
                   panicked, hist, nops>>

\* line 152: g.fillFunc is read with no lock held
GetChk(t) ==
    /\ pc[t] = "get_chk"
    /\ Running
    /\ IF fillFunc[loc[t].g] = "nil"
       THEN Goto(t, "get_dlock", loc[t])
       ELSE Goto(t, "get_call", loc[t])
    /\ UNCHANGED <<now, values, fillFunc, expiration, mx, groups, nalloc, h,
                   panicked, hist, nops>>

\* line 159: g.fillFunc is read again and called; calling nil panics
GetCallFill(t) ==
    /\ pc[t] = "get_call"
    /\ Running
    /\ IF fillFunc[loc[t].g] = "nil"
       THEN /\ Goto(t, "panic", loc[t])
            /\ panicked' = TRUE
       ELSE /\ Goto(t, "get_fill",
                    [loc[t] EXCEPT !.f = fillFunc[loc[t].g],
                                   !.called = loc[t].called + 1])
            /\ UNCHANGED panicked
    /\ UNCHANGED <<now, values, fillFunc, expiration, mx, groups, nalloc, h,
                   hist, nops>>

\* line 159-161: the fill function returns
GetFillRet(t) ==
    /\ pc[t] = "get_fill"
    /\ Running
    /\ FillReturns(loc[t])
    /\ LET r == FillResult(loc[t].f, loc[t].key) IN
       IF r[2]
       THEN Goto(t, "get_exp",
                 [loc[t] EXCEPT !.v.data = r[1], !.found = TRUE, !.fr = "found"])
       ELSE Goto(t, "get_dlock",
                 [loc[t] EXCEPT !.v.data = r[1], !.found = FALSE, !.fr = "miss"])
    /\ UNCHANGED <<now, values, fillFunc, expiration, mx, groups, nalloc, h,
                   panicked, hist, nops>>

\* line 168: g.expiration is read with no lock held
GetExp(t) ==
    /\ pc[t] = "get_exp"
    /\ Running
    /\ IF expiration[loc[t].g] # 0
       THEN Goto(t, "get_exp2", loc[t])
       ELSE Goto(t, "get_wlock", [loc[t] EXCEPT !.d = 0])
    /\ UNCHANGED <<now, values, fillFunc, expiration, mx, groups, nalloc, h,
                   panicked, hist, nops>>

\* line 169: g.expiration is read again
GetExp2(t) ==
    /\ pc[t] = "get_exp2"
    /\ Running
    /\ Goto(t, "get_wlock",
            [loc[t] EXCEPT !.d = expiration[loc[t].g],
                           !.v.expiration = AddNano(loc[t].now, expiration[loc[t].g])])
    /\ UNCHANGED <<now, values, fillFunc, expiration, mx, groups, nalloc, h,
                   panicked, hist, nops>>

\* lines 153 and 162
GetDLock(t) ==
    /\ pc[t] = "get_dlock"
    /\ Running
    /\ Lock(t, loc[t].g)
    /\ Goto(t, "get_del", loc[t])
    /\ UNCHANGED <<now, values, fillFunc, expiration, groups, nalloc, h,
                   panicked, hist, nops>>

\* lines 154-156 and 163-165
GetDel(t) ==
    /\ pc[t] = "get_del"
    /\ Running
    /\ values' = [values EXCEPT ![loc[t].g] = Delete(values[loc[t].g], loc[t].key)]
    /\ Unlock(t, loc[t].g)
    /\ Finish(t, [loc[t] EXCEPT !.found = FALSE, !.v = Absent])
    /\ UNCHANGED <<now, fillFunc, expiration, groups, nalloc, h,
                   panicked, hist, nops>>

\* line 172
GetWLock(t) ==
    /\ pc[t] = "get_wlock"
    /\ Running
    /\ Lock(t, loc[t].g)
    /\ Goto(t, "get_write", loc[t])
    /\ UNCHANGED <<now, values, fillFunc, expiration, groups, nalloc, h,
                   panicked, hist, nops>>

\* lines 173-176
GetWrite(t) ==
    /\ pc[t] = "get_write"
    /\ Running
    /\ values' = [values EXCEPT ![loc[t].g] =
                     Store(values[loc[t].g], loc[t].key, loc[t].v.data,
                           loc[t].v.expiration)]
    /\ hist' = [hist EXCEPT ![loc[t].g][loc[t].key] =
                   [kind |-> "fill", by |-> t, n |-> nops[t],
                    data |-> loc[t].v.data, exp |-> loc[t].v.expiration,
                    policy |-> loc[t].d, conc |-> loc[t].conc]]
    /\ Unlock(t, loc[t].g)
    /\ Finish(t, loc[t])
    /\ UNCHANGED <<now, fillFunc, expiration, groups, nalloc, h,
                   panicked, nops>>

\* ------------------------------------------------------------- group.Set
SetCall(t) ==
    /\ CanCall(t)
    /\ \E g \in Handles(t), k \in Keys :
          /\ Invoke(t, "set_lock",
                    [Idle EXCEPT !.op = "Set", !.g = g, !.key = k, !.val = DataOf(t)])
          /\ hist' = Forget(g, k)
    /\ UNCHANGED <<now, values, fillFunc, expiration, mx, groups, nalloc, h, panicked>>

\* lines 180-185: the lock is taken, then the policy and the clock are read
SetLock(t) ==
    /\ pc[t] = "set_lock"
    /\ Running
    /\ Lock(t, loc[t].g)
    /\ Goto(t, "set_write",
            [loc[t] EXCEPT !.d = expiration[loc[t].g], !.now = now,
                           !.v.expiration = SetExpiry(expiration[loc[t].g], now)])
    /\ UNCHANGED <<now, values, fillFunc, expiration, groups, nalloc, h, panicked, hist, nops>>

\* lines 187-192
SetWrite(t) ==
    /\ pc[t] = "set_write"
    /\ Running
    /\ values' = [values EXCEPT ![loc[t].g] =
                     Store(values[loc[t].g], loc[t].key, loc[t].val,
                           loc[t].v.expiration)]
    /\ hist' = [hist EXCEPT ![loc[t].g][loc[t].key] =
                   [kind |-> "set", by |-> t, n |-> nops[t],
                    data |-> loc[t].val, exp |-> loc[t].v.expiration,
                    policy |-> loc[t].d, conc |-> loc[t].conc]]
    /\ Unlock(t, loc[t].g)
    /\ Finish(t, loc[t])
    /\ UNCHANGED <<now, fillFunc, expiration, groups, nalloc, h, panicked, nops>>

\* ------------------------------------------------------------- group.Del
DelCall(t) ==
    /\ CanCall(t)
    /\ \E g \in Handles(t), k \in Keys :
          /\ Invoke(t, "del_lock", [Idle EXCEPT !.op = "Del", !.g = g, !.key = k])
          /\ hist' = Forget(g, k)
    /\ UNCHANGED <<now, values, fillFunc, expiration, mx, groups, nalloc, h, panicked>>

\* line 196
DelLock(t) ==
    /\ pc[t] = "del_lock"
    /\ Running
    /\ Lock(t, loc[t].g)
    /\ Goto(t, "del_do", loc[t])
    /\ UNCHANGED <<now, values, fillFunc, expiration, groups, nalloc, h, panicked, hist, nops>>

\* lines 197-198
DelDo(t) ==
    /\ pc[t] = "del_do"
    /\ Running
    /\ values' = [values EXCEPT ![loc[t].g] = Delete(values[loc[t].g], loc[t].key)]
    /\ hist' = Forget(loc[t].g, loc[t].key)
    /\ Unlock(t, loc[t].g)
    /\ Finish(t, loc[t])
    /\ UNCHANGED <<now, fillFunc, expiration, groups, nalloc, h, panicked, nops>>

\* ------------------------------------------------------------- group.SetExpiration
\* lines 202-204 run before the lock is taken
SetExpirationCall(t) ==
    /\ CanCall(t)
    /\ \E g \in Handles(t), d \in Durations :
          Invoke(t, "sx_lock",
                 [Idle EXCEPT !.op = "SetExpiration", !.g = g, !.arg = d,
                              !.d = NormExpiration(d)])
    /\ UNCHANGED <<now, values, fillFunc, expiration, mx, groups, nalloc, h, panicked, hist>>

\* line 206
SetExpirationLock(t) ==
    /\ pc[t] = "sx_lock"
    /\ Running
    /\ Lock(t, loc[t].g)
    /\ Goto(t, "sx_write", loc[t])
    /\ UNCHANGED <<now, values, fillFunc, expiration, groups, nalloc, h, panicked, hist, nops>>

\* lines 207-208
SetExpirationWrite(t) ==
    /\ pc[t] = "sx_write"
    /\ Running
    /\ expiration' = [expiration EXCEPT ![loc[t].g] = loc[t].d]
    /\ Unlock(t, loc[t].g)
    /\ Finish(t, loc[t])
    /\ UNCHANGED <<now, values, fillFunc, groups, nalloc, h, panicked, hist, nops>>

\* ------------------------------------------------------------- group.SetFillFunc
SetFillFuncCall(t) ==
    /\ CanCall(t)
    /\ \E g \in Handles(t), f \in FillFuncs :
          Invoke(t, "sf_lock", [Idle EXCEPT !.op = "SetFillFunc", !.g = g, !.f = f])
    /\ UNCHANGED <<now, values, fillFunc, expiration, mx, groups, nalloc, h, panicked, hist>>

\* line 212
SetFillFuncLock(t) ==
    /\ pc[t] = "sf_lock"
    /\ Running
    /\ Lock(t, loc[t].g)
    /\ Goto(t, "sf_write", loc[t])
    /\ UNCHANGED <<now, values, fillFunc, expiration, groups, nalloc, h, panicked, hist, nops>>

\* lines 213-214
SetFillFuncWrite(t) ==
    /\ pc[t] = "sf_write"
    /\ Running
    /\ fillFunc' = [fillFunc EXCEPT ![loc[t].g] = loc[t].f]
    /\ Unlock(t, loc[t].g)
    /\ Finish(t, loc[t])
    /\ UNCHANGED <<now, values, expiration, groups, nalloc, h, panicked, hist, nops>>

\* ------------------------------------------------------------- cache
\* c.mx is the mutex of the embedded *group: the cache struct has no mutex
\* of its own (lines 47-50), so c.mx.Lock() locks the default group.
RegistryLock == Default

\* A lookup that never finds a name registered.
ExistsNever(name) == FALSE

\* A lookup that finds every name registered.
ExistsAlways(name) == TRUE

\* if _, exists := c.groups[key]; exists (and g, ok := c.groups[gkey]: ok)
Exists(name) == groups[name] # NilGroup

\* A NewGroup that registers the cache's own embedded group under the name.
NewIdAliased(n) == Default

\* A NewGroup that registers the group object allocated last again.
NewIdReused(n) == n

\* &group{...}: the group object NewGroup allocates, n objects existing
NewId(n) == n + 1

\* cache.Group
GroupCall(t) ==
    /\ CanCall(t)
    /\ \E n \in Names :
          Invoke(t, "grp_lock", [Idle EXCEPT !.op = "Group", !.name = n])
    /\ UNCHANGED <<now, values, fillFunc, expiration, mx, groups, nalloc, h, panicked, hist>>

\* line 70
GroupLock(t) ==
    /\ pc[t] = "grp_lock"
    /\ Running
    /\ Lock(t, RegistryLock)
    /\ Goto(t, "grp_read", loc[t])
    /\ UNCHANGED <<now, values, fillFunc, expiration, groups, nalloc, h, panicked, hist, nops>>

\* lines 71-74: the caller keeps the Group it was given
GroupRead(t) ==
    /\ pc[t] = "grp_read"
    /\ Running
    /\ Unlock(t, RegistryLock)
    /\ Finish(t, [loc[t] EXCEPT !.g = groups[loc[t].name], !.found = Exists(loc[t].name)])
    /\ h' = [h EXCEPT ![t] = IF Exists(loc[t].name) THEN groups[loc[t].name] ELSE @]
    /\ UNCHANGED <<now, values, fillFunc, expiration, groups, nalloc, panicked, hist, nops>>

\* cache.NewGroup; the model can allocate MaxGroups group objects
NewGroupCall(t) ==
    /\ CanCall(t)
    /\ nalloc + Cardinality({u \in Threads : pc[u] \in {"ng_lock", "ng_do"}}) < MaxGroups
    /\ \E n \in Names, c \in GroupArgs :
          Invoke(t, "ng_lock",
                 [Idle EXCEPT !.op = "NewGroup", !.name = n, !.arg = c[1], !.f = c[2]])
    /\ UNCHANGED <<now, values, fillFunc, expiration, mx, groups, nalloc, h, panicked, hist>>

\* line 78
NewGroupLock(t) ==
    /\ pc[t] = "ng_lock"
    /\ Running
    /\ Lock(t, RegistryLock)
    /\ Goto(t, "ng_do", loc[t])
    /\ UNCHANGED <<now, values, fillFunc, expiration, groups, nalloc, h, panicked, hist, nops>>

\* lines 81-95, and the deferred Unlock
NewGroupDo(t) ==
    /\ pc[t] = "ng_do"
    /\ Running
    /\ IF Exists(loc[t].name)
       THEN /\ Finish(t, [loc[t] EXCEPT !.err = "AlreadyExists"])
            /\ UNCHANGED <<groups, nalloc, values, fillFunc, expiration>>
       ELSE /\ groups' = [groups EXCEPT ![loc[t].name] = NewId(nalloc)]
            /\ nalloc' = nalloc + 1
            /\ values' = [values EXCEPT ![NewId(nalloc)] = EmptyMap]
            /\ fillFunc' = [fillFunc EXCEPT ![NewId(nalloc)] = loc[t].f]
            /\ expiration' = [expiration EXCEPT ![NewId(nalloc)] = NormNeg(loc[t].arg)]
            /\ Finish(t, [loc[t] EXCEPT !.g = NewId(nalloc)])
    /\ Unlock(t, RegistryLock)
    /\ UNCHANGED <<now, h, panicked, hist, nops>>

\* cache.DelGroup
DelGroupCall(t) ==
    /\ CanCall(t)
    /\ \E n \in Names :
          Invoke(t, "dg_lock", [Idle EXCEPT !.op = "DelGroup", !.name = n])
    /\ UNCHANGED <<now, values, fillFunc, expiration, mx, groups, nalloc, h, panicked, hist>>

\* line 99
DelGroupLock(t) ==
    /\ pc[t] = "dg_lock"
    /\ Running
    /\ Lock(t, RegistryLock)
    /\ Goto(t, "dg_do", loc[t])
    /\ UNCHANGED <<now, values, fillFunc, expiration, groups, nalloc, h, panicked, hist, nops>>

\* lines 100-101
DelGroupDo(t) ==
    /\ pc[t] = "dg_do"
    /\ Running
    /\ groups' = [groups EXCEPT ![loc[t].name] = NilGroup]
    /\ Unlock(t, RegistryLock)
    /\ Finish(t, loc[t])
    /\ UNCHANGED <<now, values, fillFunc, expiration, nalloc, h, panicked, hist, nops>>

\* cache.GetGroupVal
GetGroupValCall(t) ==
    /\ CanCall(t)
    /\ \E n \in Names, k \in Keys :
          Invoke(t, "ggv_lock",
                 [Idle EXCEPT !.op = "GetGroupVal", !.name = n, !.key = k])
    /\ UNCHANGED <<now, values, fillFunc, expiration, mx, groups, nalloc, h, panicked, hist>>

\* line 105
GetGroupValLock(t) ==
    /\ pc[t] = "ggv_lock"
    /\ Running
    /\ Lock(t, RegistryLock)
    /\ Goto(t, "ggv_read", loc[t])
    /\ UNCHANGED <<now, values, fillFunc, expiration, groups, nalloc, h, panicked, hist, nops>>

\* lines 106-113: not found, or on to g.Get(vkey)
GetGroupValRead(t) ==
    /\ pc[t] = "ggv_read"
    /\ Running
    /\ Unlock(t, RegistryLock)
    /\ IF Exists(loc[t].name)
       THEN Goto(t, "get_lock", [loc[t] EXCEPT !.g = groups[loc[t].name]])
       ELSE Finish(t, [loc[t] EXCEPT !.found = FALSE])
    /\ UNCHANGED <<now, values, fillFunc, expiration, groups, nalloc, h, panicked, hist, nops>>

\* cache.SetGroupVal
SetGroupValCall(t) ==
    /\ CanCall(t)
    /\ \E n \in Names, k \in Keys :
          Invoke(t, "sgv_lock",
                 [Idle EXCEPT !.op = "SetGroupVal", !.name = n, !.key = k,
                              !.val = DataOf(t)])
    /\ UNCHANGED <<now, values, fillFunc, expiration, mx, groups, nalloc, h, panicked, hist>>

\* line 117
SetGroupValLock(t) ==
    /\ pc[t] = "sgv_lock"
    /\ Running
    /\ Lock(t, RegistryLock)
    /\ Goto(t, "sgv_read", loc[t])
    /\ UNCHANGED <<now, values, fillFunc, expiration, groups, nalloc, h, panicked, hist, nops>>

\* lines 118-127: the error, or on to g.Set(vkey, val)
SetGroupValRead(t) ==
    /\ pc[t] = "sgv_read"
    /\ Running
    /\ Unlock(t, RegistryLock)
    /\ IF Exists(loc[t].name)
       THEN /\ Goto(t, "set_lock", [loc[t] EXCEPT !.g = groups[loc[t].name]])
            /\ hist' = Forget(groups[loc[t].name], loc[t].key)
       ELSE /\ Finish(t, [loc[t] EXCEPT !.err = "NotFound"])
            /\ UNCHANGED hist
    /\ UNCHANGED <<now, values, fillFunc, expiration, groups, nalloc, h, panicked, nops>>

\* ------------------------------------------------------------- clock
Tick ==
    /\ now < MaxTime
    /\ Running
    /\ now' = now + 1
    /\ UNCHANGED <<values, fillFunc, expiration, mx, groups, nalloc, pc, loc,
                   h, panicked, hist, ret, nops>>

\* The caller takes what its call returned.
Return ==
    /\ ret.op # "none"
    /\ ret' = NoRet
    /\ UNCHANGED <<now, values, fillFunc, expiration, mx, groups, nalloc, pc,
                   loc, h, panicked, hist, nops>>

\* Get, Set and Del on the cache's embedded group and on the handles the
\* threads hold.
ValueStep(t) ==
          \/ GetCall(t) \/ GetLock(t) \/ GetRead(t) \/ GetNow(t) \/ GetChk(t)
          \/ GetCallFill(t) \/ GetFillRet(t) \/ GetExp(t) \/ GetExp2(t)
          \/ GetDLock(t) \/ GetDel(t) \/ GetWLock(t) \/ GetWrite(t)
          \/ SetCall(t) \/ SetLock(t) \/ SetWrite(t)
          \/ DelCall(t) \/ DelLock(t) \/ DelDo(t)

PolicyStep(t) ==
          \/ SetExpirationCall(t) \/ SetExpirationLock(t) \/ SetExpirationWrite(t)
          \/ SetFillFuncCall(t) \/ SetFillFuncLock(t) \/ SetFillFuncWrite(t)

RegistryStep(t) ==
          \/ GroupCall(t) \/ GroupLock(t) \/ GroupRead(t)
          \/ NewGroupCall(t) \/ NewGroupLock(t) \/ NewGroupDo(t)
          \/ DelGroupCall(t) \/ DelGroupLock(t) \/ DelGroupDo(t)
          \/ GetGroupValCall(t) \/ GetGroupValLock(t) \/ GetGroupValRead(t)
          \/ SetGroupValCall(t) \/ SetGroupValLock(t) \/ SetGroupValRead(t)

Next ==
    \/ Tick
    \/ Return
    \/ \E t \in Threads : ValueStep(t) \/ PolicyStep(t)

\* The cache used as a group by concurrent callers.
Spec == Init /\ [][Next]_vars

NextCache ==
    \/ Return
    \/ \E t \in Threads : ValueStep(t) \/ RegistryStep(t)

\* NewCache(0, fillX): the registry is exercised on a cache whose own group
\* never expires and has a fill function.
InitCache ==
    /\ Init
    /\ expiration[Default] = 0
    /\ fillFunc[Default] = "fillX"

\* The cache used as a registry of groups; the clock stands still.
SpecCache == InitCache /\ [][NextCache]_vars

\* Every thread calls Set("a", its own value) once on the cache, whose policy
\* is 0; when all have returned, thread 1 calls Get("a").
InitSets ==
    /\ Init
    /\ expiration[Default] = 0

SetsCall(t) ==
    /\ pc[t] = "idle" /\ Running /\ nops[t] = 0
    /\ Invoke(t, "set_lock",
              [Idle EXCEPT !.op = "Set", !.g = Default, !.key = "a", !.val = DataOf(t)])
    /\ hist' = Forget(Default, "a")
    /\ UNCHANGED <<now, values, fillFunc, expiration, mx, groups, nalloc, h,
                   panicked>>

FinalGetCall ==
    /\ Running
    /\ \A t \in Threads : pc[t] = "idle" /\ nops[t] = 1
    /\ Invoke(1, "get_lock", [Idle EXCEPT !.op = "Get", !.g = Default, !.key = "a"])
    /\ UNCHANGED <<now, values, fillFunc, expiration, mx, groups, nalloc, h,
                   panicked, hist>>

NextSets ==
    \/ Tick
    \/ Return
    \/ FinalGetCall
    \/ \E t \in Threads :
          \/ SetsCall(t) \/ SetLock(t) \/ SetWrite(t)
          \/ GetLock(t) \/ GetRead(t) \/ GetNow(t)

SpecSets == InitSets /\ [][NextSets]_vars

\* One name of the registry and the handles obtained for it: the threads
\* call NewGroup, Group and DelGroup on "g1" and Get, Set and Del of key "a"
\* on the Group that cache.Group handed them.
HandleCanCall(t) ==
    /\ pc[t] = "idle" /\ Running
    /\ nops[t] < (IF t = 1 THEN MaxHandleOps ELSE MaxOther)

HandleRegistryCall(t) ==
    /\ HandleCanCall(t)
    /\ \/ /\ nalloc + Cardinality({u \in Threads : pc[u] \in {"ng_lock", "ng_do"}})
               < MaxGroups
          /\ \E c \in GroupArgs :
                Invoke(t, "ng_lock",
                       [Idle EXCEPT !.op = "NewGroup", !.name = "g1",
                                    !.arg = c[1], !.f = c[2]])
       \/ Invoke(t, "grp_lock", [Idle EXCEPT !.op = "Group", !.name = "g1"])
       \/ Invoke(t, "dg_lock", [Idle EXCEPT !.op = "DelGroup", !.name = "g1"])
    /\ UNCHANGED <<now, values, fillFunc, expiration, mx, groups, nalloc, h,
                   panicked, hist>>

HandleValueCall(t) ==
    /\ HandleCanCall(t)
    /\ h[t] # Default
    /\ \/ /\ Invoke(t, "get_lock", [Idle EXCEPT !.op = "Get", !.g = h[t], !.key = "a"])
          /\ UNCHANGED hist
       \/ /\ Invoke(t, "set_lock",
                     [Idle EXCEPT !.op = "Set", !.g = h[t], !.key = "a",
                                  !.val = DataOf(t)])
          /\ hist' = Forget(h[t], "a")
       \/ /\ Invoke(t, "del_lock", [Idle EXCEPT !.op = "Del", !.g = h[t], !.key = "a"])
          /\ hist' = Forget(h[t], "a")
    /\ UNCHANGED <<now, values, fillFunc, expiration, mx, groups, nalloc, h,
                   panicked>>

NextHandle ==
    \/ Return
    \/ \E t \in Threads :
          \/ HandleRegistryCall(t) \/ HandleValueCall(t)
          \/ NewGroupLock(t) \/ NewGroupDo(t)
          \/ GroupLock(t) \/ GroupRead(t)
          \/ DelGroupLock(t) \/ DelGroupDo(t)
          \/ GetLock(t) \/ GetRead(t) \/ GetNow(t) \/ GetChk(t)
          \/ GetCallFill(t) \/ GetFillRet(t) \/ GetExp(t) \/ GetExp2(t)
          \/ GetDLock(t) \/ GetDel(t) \/ GetWLock(t) \/ GetWrite(t)
          \/ SetLock(t) \/ SetWrite(t)
          \/ DelLock(t) \/ DelDo(t)

SpecHandle == InitCache /\ [][NextHandle]_vars

\* A cache with a fill function: thread 1 calls Get("a"), and while it is
\* inside the fill function the other threads call Get, Set, Del,
\* SetExpiration and SetFillFunc on the same group.
InitFill ==
    /\ Init
    /\ fillFunc[Default] # "nil"

FillGetCall ==
    /\ pc[1] = "idle" /\ Running /\ nops[1] = 0
    /\ Invoke(1, "get_lock", [Idle EXCEPT !.op = "Get", !.g = Default, !.key = "a"])
    /\ UNCHANGED <<now, values, fillFunc, expiration, mx, groups, nalloc, h,
                   panicked, hist>>

DuringFill(t) ==
    /\ t # 1
    /\ pc[1] = "get_fill"
    /\ \/ GetCall(t) \/ SetCall(t) \/ DelCall(t)
       \/ SetExpirationCall(t) \/ SetFillFuncCall(t)

NextFill ==
    \/ Tick
    \/ Return
    \/ FillGetCall
    \/ \E t \in Threads :
          \/ DuringFill(t)
          \/ GetLock(t) \/ GetRead(t) \/ GetNow(t) \/ GetChk(t)
          \/ GetCallFill(t) \/ GetFillRet(t) \/ GetExp(t) \/ GetExp2(t)
          \/ GetDLock(t) \/ GetDel(t) \/ GetWLock(t) \/ GetWrite(t)
          \/ SetLock(t) \/ SetWrite(t)
          \/ DelLock(t) \/ DelDo(t)
          \/ SetExpirationLock(t) \/ SetExpirationWrite(t)
          \/ SetFillFuncLock(t) \/ SetFillFuncWrite(t)

SpecFill == InitFill /\ [][NextFill]_vars

\* A cache with a fill function on which every thread calls Get("a") once,
\* concurrently.
GetsCall(t) ==
    /\ pc[t] = "idle" /\ Running /\ nops[t] = 0
    /\ Invoke(t, "get_lock", [Idle EXCEPT !.op = "Get", !.g = Default, !.key = "a"])
    /\ UNCHANGED <<now, values, fillFunc, expiration, mx, groups, nalloc, h,
                   panicked, hist>>

NextGets ==
    \/ Tick
    \/ Return
    \/ \E t \in Threads :
          \/ GetsCall(t)
          \/ GetLock(t) \/ GetRead(t) \/ GetNow(t) \/ GetChk(t)
          \/ GetCallFill(t) \/ GetFillRet(t) \/ GetExp(t) \/ GetExp2(t)
          \/ GetDLock(t) \/ GetDel(t) \/ GetWLock(t) \/ GetWrite(t)

SpecGets == InitFill /\ [][NextGets]_vars

\* NewCache(d, fillCalls): the cache's fill function calls back into the
\* cache.  Every thread invokes one operation of Cache or Group; the
\* scheduler is fair to every goroutine that can take a step.
InitLive ==
    /\ now = 1
    /\ values = [g \in GroupIds |-> EmptyMap]
    /\ \E d \in Durations :
          expiration = [g \in GroupIds |-> IF g = Default THEN NormNeg(d) ELSE 0]
    /\ fillFunc = [g \in GroupIds |-> IF g = Default THEN "fillCalls" ELSE "nil"]
    /\ mx = [g \in GroupIds |-> 0]
    /\ groups = [n \in Names |-> NilGroup]
    /\ nalloc = 1
    /\ pc = [t \in Threads |-> "idle"]
    /\ loc = [t \in Threads |-> Idle]
    /\ h = [t \in Threads |-> Default]
    /\ panicked = FALSE
    /\ hist = [g \in GroupIds |-> [k \in Keys |-> NoHist]]
    /\ ret = NoRet
    /\ nops = [t \in Threads |-> 0]

\* The calls fillCalls can make while it fills key "a" of group g: Get of
\* the other key, Set and Del of either key of g, and the registry
\* operations on the name "g1".  <<first label, locals>>.
InnerCalls(g) ==
    {<<"get_lock", [Idle EXCEPT !.op = "Get", !.g = g, !.key = "b"]>>}
    \cup {<<"set_lock", [Idle EXCEPT !.op = "Set", !.g = g, !.key = k, !.val = "X"]>>
             : k \in Keys}
    \cup {<<"del_lock", [Idle EXCEPT !.op = "Del", !.g = g, !.key = k]>> : k \in Keys}
    \cup (IF nalloc + Cardinality({u \in Threads : pc[u] \in {"ng_lock", "ng_do"}})
              < MaxGroups
          THEN {<<"ng_lock", [Idle EXCEPT !.op = "NewGroup", !.name = "g1",
                                          !.arg = -1, !.f = "nil"]>>}
          ELSE {})
    \cup {<<"dg_lock", [Idle EXCEPT !.op = "DelGroup", !.name = "g1"]>>,
          <<"grp_lock", [Idle EXCEPT !.op = "Group", !.name = "g1"]>>,
          <<"ggv_lock", [Idle EXCEPT !.op = "GetGroupVal", !.name = "g1", !.key = "b"]>>,
          <<"sgv_lock", [Idle EXCEPT !.op = "SetGroupVal", !.name = "g1", !.key = "b",
                                     !.val = "X"]>>}

\* line 159, inside g.fillFunc(key): the fill function calls the cache.
FillInner(t) ==
    /\ pc[t] = "get_fill"
    /\ Running
    /\ ~FillReturns(loc[t])
    /\ loc[t].outer = <<>>
    /\ \E c \in InnerCalls(loc[t].g) :
          /\ Goto(t, c[1], [c[2] EXCEPT !.conc = loc[t].conc,
                                        !.outer = <<[loc[t] EXCEPT !.inner = 1]>>])
          /\ hist' = IF c[2].op \in {"Set", "Del"}
                     THEN Forget(c[2].g, c[2].key)
                     ELSE hist
    /\ UNCHANGED <<now, values, fillFunc, expiration, mx, groups, nalloc, h,
                   panicked, nops>>

\* Thread t, which has not called anything yet, invokes an operation.
LiveCall(t) ==
    /\ nops[t] = 0
    /\ \/ GetCall(t) \/ SetCall(t) \/ DelCall(t)
       \/ SetExpirationCall(t) \/ SetFillFuncCall(t)
       \/ GroupCall(t) \/ NewGroupCall(t) \/ DelGroupCall(t)
       \/ GetGroupValCall(t) \/ SetGroupValCall(t)

\* The steps of thread t inside a call.
ThreadStep(t) ==
    \/ GetLock(t) \/ GetRead(t) \/ GetNow(t) \/ GetChk(t)
    \/ GetCallFill(t) \/ FillInner(t) \/ GetFillRet(t) \/ GetExp(t) \/ GetExp2(t)
    \/ GetDLock(t) \/ GetDel(t) \/ GetWLock(t) \/ GetWrite(t)
    \/ SetLock(t) \/ SetWrite(t)
    \/ DelLock(t) \/ DelDo(t)
    \/ SetExpirationLock(t) \/ SetExpirationWrite(t)
    \/ SetFillFuncLock(t) \/ SetFillFuncWrite(t)
    \/ GroupLock(t) \/ GroupRead(t)
    \/ NewGroupLock(t) \/ NewGroupDo(t)
    \/ DelGroupLock(t) \/ DelGroupDo(t)
    \/ GetGroupValLock(t) \/ GetGroupValRead(t)
    \/ SetGroupValLock(t) \/ SetGroupValRead(t)

NextLive ==
    \/ Return
    \/ \E t \in Threads : LiveCall(t) \/ ThreadStep(t)

SpecLive ==
    /\ InitLive
    /\ [][NextLive]_vars
    /\ WF_vars(Return)
    /\ \A t \in Threads : WF_vars(ThreadStep(t))
\* ------------------------------------------------------------- claims
\* The entry of key k in group g.
EntryOf(g, k) == values[g][k]

\* ret is what a Get(k) returned that found, when it looked k up, that the
\* last write of k was a Set(k, _) of its own caller, no Set(k, _) and no
\* Del(k) having been issued by anyone since.
GetAfterOwnSet ==
    /\ ret.op = "Get"
    /\ ret.prev.kind = "set"
    /\ ret.prev.by = ret.t

\* C1: in a group whose policy is 0, a Get(k) the caller issues after its
\* Set(k, v) returned, with no Del(k) and no other Set(k, _) issued in between,
\* returns (v, true) at any clock reading and does not invoke the fill function.
C1_SetThenGetNeverExpires ==
    (GetAfterOwnSet /\ ret.prev.policy = 0 /\ expiration[ret.g] = 0)
    => /\ ret.found
       /\ ret.data = ret.prev.data
       /\ ret.called = 0

\* C2: in a group with TTL d > 0 and no fill function, Get(k) after Set(k, v)
\* at time t returns (v, true) exactly while the clock is strictly before
\* t + d; from t + d on it returns (nil, false) and k is not in the map.
C2_TTLWindow ==
    (/\ GetAfterOwnSet
     /\ ret.prev.policy > 0
     /\ fillFunc[ret.g] = "nil" /\ ret.called = 0)
    => /\ ret.now < ret.prev.exp
          => (ret.found /\ ret.data = ret.prev.data)
       /\ ret.now >= ret.prev.exp
          => (~ret.found /\ ret.data = "nil" /\ ~EntryOf(ret.g, ret.key).ok)

\* ret is what a Get(k) returned that found, when it looked k up, that the
\* last write of k was the fill of an earlier Get(k) of its own caller, the
\* group's fill function being fillX and its policy the one that fill read.
GetAfterOwnFill ==
    /\ ret.op = "Get"
    /\ ret.prev.kind = "fill"
    /\ ret.prev.by = ret.t
    /\ ret.prev.policy = expiration[ret.g]
    /\ fillFunc[ret.g] = "fillX"

\* C3: once a Get(k) has filled k with X, a following Get(k) within the TTL of
\* the current policy (counted from the clock reading of the filling Get), or
\* at any later time when the policy is 0, returns (X, true) and does not invoke
\* the fill function again, whatever stale entry the fill replaced.  Stated
\* for the case in which no other call ran during either Get.
C3_FillOnce ==
    (/\ GetAfterOwnFill
     /\ ~ret.conc /\ ~ret.prev.conc
     /\ \/ ret.prev.policy = 0
        \/ ret.now < ret.prev.exp)
    => /\ ret.found
       /\ ret.data = "X"
       /\ ret.called = 0

\* C4: a Get(k) whose fill function reports not-found returns (nil, false) and
\* leaves no entry for k (none inserted, a stale one removed); the step that
\* removes k changes no other key's entry and no other group's map.
C4_FillNotFoundRemoves ==
    /\ [](ret.fr = "miss"
            => (~ret.found /\ ret.data = "nil" /\ ~EntryOf(ret.g, ret.key).ok))
    /\ [][\A t \in Threads :
            (pc[t] = "get_del" /\ pc'[t] = "idle")
            => /\ ~values'[loc[t].g][loc[t].key].ok
               /\ \A g \in GroupIds, k \in Keys :
                     (g # loc[t].g \/ k # loc[t].key) => values'[g][k] = values[g][k]
         ]_vars

\* A Get(k) came back (nil, false) from a fill function that reported not-found,
\* having removed a stale entry of k while another key has an entry.
C4_Witness ==
    /\ ret.op = "Get" /\ ret.fr = "miss" /\ ret.stale /\ ~ret.found
    /\ \E k \in Keys \ {ret.key} : EntryOf(ret.g, k).ok

\* C5: no operation panics under any interleaving: Get never calls a nil fill
\* function.
C5_NoPanic == ~panicked

C6_Registry ==
    /\ [](\A n \in Names :
            /\ groups[n] # Default
            /\ \A m \in Names \ {n} : groups[n] # NilGroup => groups[n] # groups[m])
    /\ [][/\ \A t \in Threads :
               (pc[t] = "ng_do" /\ pc'[t] = "idle")
               => IF groups[loc[t].name] # NilGroup
                  THEN /\ ret'.err = "AlreadyExists"
                       /\ groups' = groups
                       /\ values' = values
                       /\ expiration' = expiration
                       /\ fillFunc' = fillFunc
                  ELSE /\ ret'.err = "none"
                       /\ groups'[loc[t].name] \in GroupIds \ {Default}
                       /\ \A u \in Threads : h[u] # groups'[loc[t].name]
                       /\ values'[groups'[loc[t].name]] = EmptyMap
                       /\ \A n \in Names \ {loc[t].name} : groups'[n] = groups[n]
          /\ \A t \in Threads :
               (pc[t] = "dg_do" /\ pc'[t] = "idle")
               => /\ groups'[loc[t].name] = NilGroup
                  /\ \A n \in Names \ {loc[t].name} : groups'[n] = groups[n]
          /\ \A t \in Threads :
               (pc[t] = "grp_read" /\ pc'[t] = "idle")
               => /\ ret'.found = (groups[loc[t].name] # NilGroup)
                  /\ ret'.g = groups[loc[t].name]
          /\ \A n \in Names :
               (groups[n] = NilGroup /\ groups'[n] # NilGroup)
               => \E t \in Threads :
                     pc[t] = "ng_do" /\ loc[t].name = n /\ ret'.err = "none"
         ]_vars

\* NewGroup came back AlreadyExists for a name whose group holds a value.
C6_Witness ==
    /\ ret.op = "NewGroup" /\ ret.err = "AlreadyExists"
    /\ \E k \in Keys : EntryOf(groups[ret.name], k).ok

\* C7: a write through SetGroupVal(g1, ...) changes no entry of the default
\* group or of a group registered under another name; a write of a call on
\* the default group changes no entry of a registered group; NewGroup, DelGroup
\* and Group change no entry at all; any step changes the map of the one group
\* its call addresses, and Get reads the map of that group.
C7_Isolation ==
    [][/\ \A t \in Threads :
            (pc[t] \in {"set_write", "get_write", "get_del"} /\ pc'[t] = "idle"
             /\ loc[t].op \in {"SetGroupVal", "GetGroupVal"})
            => /\ values'[Default] = values[Default]
               /\ \A n \in Names \ {loc[t].name} :
                     groups[n] # NilGroup => values'[groups[n]] = values[groups[n]]
       /\ \A t \in Threads :
            (pc[t] \in {"set_write", "get_write", "get_del", "del_do"}
             /\ pc'[t] = "idle" /\ loc[t].g = Default)
            => \A n \in Names :
                  groups[n] # NilGroup => values'[groups[n]] = values[groups[n]]
       /\ \A t \in Threads :
            (pc[t] \in {"ng_do", "dg_do", "grp_read", "ggv_read", "sgv_read"}
             /\ pc'[t] # pc[t])
            => values' = values
       /\ \A g \in GroupIds :
            values'[g] # values[g]
            => \E t \in Threads : loc[t].g = g /\ pc'[t] = "idle" /\ pc[t] # "idle"
       /\ \A t \in Threads :
            (pc[t] = "get_read" /\ pc'[t] = "get_now")
            => loc'[t].v = values[loc[t].g][loc[t].key]
      ]_vars

\* GetGroupVal(g2, k) came back not found while the group of another name
\* holds an entry for k.
C7_Witness ==
    /\ ret.op = "GetGroupVal" /\ ~ret.found /\ ret.g \notin {NilGroup, Default}
    /\ \E n \in Names \ {ret.name} :
          groups[n] \notin {NilGroup, ret.g} /\ EntryOf(groups[n], ret.key).ok

\* The steps between Lock and Unlock of group g's mutex.
InMap(t, g) ==
    /\ pc[t] \in {"get_read", "get_del", "get_write", "set_write", "del_do"}
    /\ loc[t].g = g

\* C8: when every thread has called Set(k, i) with its own i on a group that
\* never expires, the final Get(k) hits and returns one of the values written;
\* the entry of k is at all times one Set's data with that Set's expiry, and
\* no two threads are inside the map at the same time.
C8_ConcurrentSets ==
    /\ \A t \in Threads : pc[t] # "get_chk"
    /\ ret.op = "Get"
       => (ret.found /\ ret.called = 0 /\ \E t \in Threads : ret.data = DataOf(t))
    /\ \/ ~EntryOf(Default, "a").ok
       \/ \E t \in Threads : EntryOf(Default, "a") = Entry(DataOf(t), 0)
    /\ \A t, u \in Threads : (t # u) => ~(InMap(t, Default) /\ InMap(u, Default))

\* The final Get returned the value of thread 1 after every thread's Set, the
\* clock having advanced.
C8_Witness ==
    /\ ret.op = "Get" /\ ret.found /\ ret.data = DataOf(1)
    /\ \A t \in Threads : nops[t] >= 1
    /\ now = MaxTime

\* C9: SetGroupVal on an unregistered name returns NotFound, GetGroupVal on one
\* returns (nil, false) with no error and no fill function invoked; neither
\* changes a map or the registry.  On a registered name they go on to Set and
\* Get of the registered group.
C9_UnregisteredName ==
    [][/\ \A t \in Threads :
            (pc[t] = "sgv_read" /\ pc'[t] # pc[t] /\ groups[loc[t].name] = NilGroup)
            => /\ pc'[t] = "idle"
               /\ ret'.op = "SetGroupVal" /\ ret'.err = "NotFound"
               /\ values' = values /\ groups' = groups /\ nalloc' = nalloc
       /\ \A t \in Threads :
            (pc[t] = "ggv_read" /\ pc'[t] # pc[t] /\ groups[loc[t].name] = NilGroup)
            => /\ pc'[t] = "idle"
               /\ ret'.op = "GetGroupVal" /\ ret'.err = "none"
               /\ ~ret'.found /\ ret'.data = "nil" /\ ret'.called = 0
               /\ values' = values /\ groups' = groups /\ nalloc' = nalloc
       /\ \A t \in Threads :
            (pc[t] = "sgv_read" /\ pc'[t] # pc[t] /\ groups[loc[t].name] # NilGroup)
            => /\ pc'[t] = "set_lock"
               /\ loc'[t].g = groups[loc[t].name]
               /\ loc'[t].key = loc[t].key /\ loc'[t].val = loc[t].val
       /\ \A t \in Threads :
            (pc[t] = "ggv_read" /\ pc'[t] # pc[t] /\ groups[loc[t].name] # NilGroup)
            => /\ pc'[t] = "get_lock"
               /\ loc'[t].g = groups[loc[t].name]
               /\ loc'[t].key = loc[t].key
      ]_vars

\* GetGroupVal on an unregistered name came back (nil, false) on a cache whose
\* own group has a fill function, and no group was created.
C9_Witness ==
    /\ ret.op = "GetGroupVal" /\ ret.g = NilGroup /\ ~ret.found /\ ret.called = 0
    /\ fillFunc[Default] # "nil"
    /\ groups[ret.name] = NilGroup

\* Group g is registered under no name.
Unregistered(g) == \A n \in Names : groups[n] # g

\* C11: DelGroup changes the registry entry of its name and nothing else, so
\* a handle obtained before keeps its map, policy and fill function; on a
\* handle whose group is no longer registered Set stores its value, Del
\* removes the entry and a Get after the caller's own Set returns that value;
\* the registry does not resolve the name after DelGroup; and a later NewGroup
\* registers a group object that no handle refers to, with an empty map, and
\* leaves every other group's map as it is.
C11_HandleSurvivesDelGroup ==
    /\ []((/\ GetAfterOwnSet /\ ~ret.conc /\ ~ret.prev.conc
           /\ Unregistered(ret.g))
          => (ret.found /\ ret.data = ret.prev.data /\ ret.called = 0))
    /\ [][/\ \A t \in Threads :
               (pc[t] = "dg_do" /\ pc'[t] = "idle")
               => /\ groups'[loc[t].name] = NilGroup
                  /\ values' = values /\ expiration' = expiration
                  /\ fillFunc' = fillFunc /\ h' = h
          /\ \A t \in Threads :
               (pc[t] = "grp_read" /\ pc'[t] = "idle" /\ groups[loc[t].name] = NilGroup)
               => (~ret'.found /\ h' = h)
          /\ \A t \in Threads :
               (pc[t] = "set_write" /\ pc'[t] = "idle" /\ Unregistered(loc[t].g))
               => /\ values'[loc[t].g][loc[t].key].ok
                  /\ values'[loc[t].g][loc[t].key].data = loc[t].val
          /\ \A t \in Threads :
               (pc[t] = "del_do" /\ pc'[t] = "idle" /\ Unregistered(loc[t].g))
               => ~values'[loc[t].g][loc[t].key].ok
          /\ \A t \in Threads :
               (pc[t] = "ng_do" /\ pc'[t] = "idle" /\ groups[loc[t].name] = NilGroup)
               => /\ \A u \in Threads : h[u] # groups'[loc[t].name]
                  /\ groups'[loc[t].name] # Default
                  /\ values'[groups'[loc[t].name]] = EmptyMap
                  /\ \A g \in GroupIds \ {groups'[loc[t].name]} :
                        values'[g] = values[g]
         ]_vars

\* A Get on a handle returned the value its caller had stored through it,
\* the name of the handle having been deleted and registered again since:
\* the registry resolves the name to another group, whose map is empty.
C11_Witness ==
    /\ ret.op = "Get" /\ ret.found /\ ret.data = DataOf(ret.t)
    /\ ret.g = h[ret.t] /\ ret.g # Default
    /\ Unregistered(ret.g)
    /\ groups["g1"] # NilGroup
    /\ values[groups["g1"]] = EmptyMap

\* C12: Del(k) returns without an error or a panic and leaves k absent; on an
\* absent k it changes nothing, so that a second Del(k) leaves the state the
\* first one left; it changes no other key's entry, no other group's map,
\* no policy, no fill function and not the registry.
C12_DelIdempotent ==
    [][\A t \in Threads :
          (pc[t] = "del_do" /\ pc'[t] = "idle")
          => /\ values'[loc[t].g][loc[t].key] = Absent
             /\ ~values[loc[t].g][loc[t].key].ok => values' = values
             /\ \A g \in GroupIds, k \in Keys :
                   (g # loc[t].g \/ k # loc[t].key) => values'[g][k] = values[g][k]
             /\ expiration' = expiration /\ fillFunc' = fillFunc
             /\ groups' = groups
             /\ ret'.op = "Del" /\ ret'.err = "none" /\ ~panicked'
      ]_vars

\* Del(k) returned as the second call of the only caller so far, whose first
\* call stored the other key: k was absent when Del ran, the other key still
\* has its entry, and the group has a TTL and a fill function.
C12_Witness ==
    /\ ret.op = "Del" /\ ret.t = 1 /\ ret.n = 2 /\ nops[2] = 0
    /\ ~EntryOf(ret.g, ret.key).ok
    /\ \E k \in Keys \ {ret.key} : EntryOf(ret.g, k).ok
    /\ expiration[ret.g] # 0 /\ fillFunc[ret.g] # "nil"

\* Thread t stands before the Lock of a registry operation / is between the
\* Lock and the Unlock of one.
WantsRegistry(t) == pc[t] \in {"grp_lock", "ng_lock", "dg_lock", "ggv_lock", "sgv_lock"}
InRegistry(t) == pc[t] \in {"grp_read", "ng_do", "dg_do", "ggv_read", "sgv_read"}

\* Thread t stands before a Lock of a group operation / is between a Lock and
\* the Unlock of one.
WantsGroup(t) ==
    pc[t] \in {"get_lock", "get_dlock", "get_wlock", "set_lock", "del_lock",
               "sx_lock", "sf_lock"}
InGroup(t) ==
    pc[t] \in {"get_read", "get_del", "get_write", "set_write", "del_do",
               "sx_write", "sf_write"}

\* C13: the registry lock and the value locks are independent: no registry
\* operation stands before its Lock while the mutex it needs is held by a
\* thread inside a Get, Set, Del, SetExpiration or SetFillFunc of any group,
\* and no such group operation stands before its Lock while the mutex it
\* needs is held by a thread inside a registry operation.
C13_LocksIndependent ==
    \A t, u \in Threads :
       /\ ~(WantsRegistry(t) /\ InGroup(u) /\ mx[RegistryLock] = u)
       /\ ~(WantsGroup(t) /\ InRegistry(u) /\ mx[loc[t].g] = u)

\* C14: a Get never removes an entry that is present and unexpired and never
\* replaces its data: when the delete or the write of a Get finds such an
\* entry under its key, the entry is there with the same data afterwards.
C14_GetKeepsLiveEntry ==
    [][\A t \in Threads :
          (/\ pc[t] \in {"get_del", "get_write"} /\ pc'[t] = "idle"
           /\ values[loc[t].g][loc[t].key].ok
           /\ \/ values[loc[t].g][loc[t].key].expiration = 0
              \/ values[loc[t].g][loc[t].key].expiration > now)
          => /\ values'[loc[t].g][loc[t].key].ok
             /\ values'[loc[t].g][loc[t].key].data
                   = values[loc[t].g][loc[t].key].data
      ]_vars

\* C15: every entry is stored with the expiry its group's policy gives at
\* that write: 0 ("never") when the policy is 0, and otherwise an instant
\* strictly after the time of the store, which for Set is the clock reading
\* taken inside the critical section of the write and for a fill is the clock
\* when Get stores what the fill function returned.
C15_ExpiryAtWrite ==
    [][/\ \A t \in Threads :
            (pc[t] = "set_write" /\ pc'[t] = "idle")
            => IF expiration[loc[t].g] = 0
               THEN values'[loc[t].g][loc[t].key].expiration = 0
               ELSE values'[loc[t].g][loc[t].key].expiration > loc[t].now
       /\ \A t \in Threads :
            (pc[t] = "get_write" /\ pc'[t] = "idle")
            => IF expiration[loc[t].g] = 0
               THEN values'[loc[t].g][loc[t].key].expiration = 0
               ELSE values'[loc[t].g][loc[t].key].expiration > now
      ]_vars

\* Thread t is in the part of Get between the Unlock of the lookup and the
\* Lock of the delete or the write, where the fill function runs.
InFillWindow(t) ==
    pc[t] \in {"get_now", "get_chk", "get_call", "get_fill", "get_exp", "get_exp2"}

\* C16: the fill function runs with no lock held: a thread between the lookup
\* of Get and its delete or write holds no mutex, a mutex that is held is held
\* by a thread between the Lock and the Unlock of an access to that group, and
\* so no thread that stands before a Lock waits for a thread that is inside
\* the fill function.
C16_FillHoldsNoLock ==
    /\ \A t \in Threads : InFillWindow(t) => \A g \in GroupIds : mx[g] # t
    /\ \A g \in GroupIds :
          mx[g] # 0 => (InGroup(mx[g]) /\ loc[mx[g]].g = g)
    /\ \A t, u \in Threads :
          (pc[t] = "get_fill" /\ WantsGroup(u)) => mx[loc[u].g] # t

\* While thread 1 is inside the fill function for key "a", a Set of "a" that
\* another thread started on the same group has returned and its value is in
\* the map.
C16_Witness ==
    /\ pc[1] = "get_fill" /\ loc[1].key = "a"
    /\ ret.op = "Set" /\ ret.t # 1 /\ ret.g = loc[1].g /\ ret.key = "a"
    /\ EntryOf(ret.g, "a").ok /\ EntryOf(ret.g, "a").data = DataOf(ret.t)

\* What a Get that filled under the cache's policy can have stored for a
\* key: the data of the fill function with the expiry of one clock reading.
FilledEntries ==
    IF expiration[Default] = 0
    THEN {Entry("X", 0)}
    ELSE {Entry("X", n + expiration[Default]) : n \in 1..now}

\* C17: concurrent Gets of one key fill independently: a Get that invoked the
\* fill function invoked it once and returns what that invocation produced,
\* (X, true) or (nil, false); the entry of the key is at all times absent or
\* the whole value one Get stored; and when all Gets have returned, the map
\* holds the value of a Get that stored one, or no entry when the fill
\* function finds nothing.
C17_NoSingleFlight ==
    /\ ret.op = "Get"
       => /\ ret.called <= 1
          /\ (ret.called = 1 /\ fillFunc[ret.g] = "fillX")
             => (ret.found /\ ret.data = "X" /\ ret.fr = "found")
          /\ (ret.called = 1 /\ fillFunc[ret.g] = "fillMiss")
             => (~ret.found /\ ret.data = "nil" /\ ret.fr = "miss")
    /\ \/ ~EntryOf(Default, "a").ok
       \/ EntryOf(Default, "a") \in FilledEntries
    /\ (\A t \in Threads : pc[t] = "idle" /\ nops[t] = 1)
       => IF fillFunc[Default] = "fillX"
          THEN EntryOf(Default, "a") \in FilledEntries
          ELSE ~EntryOf(Default, "a").ok

\* Two fill invocations for one miss: a Get that found the key absent and
\* invoked the fill function returns (X, true) when the Get of the other
\* thread, which ran concurrently, has already finished; the other Get
\* looked the key up before this one stored it, so it invoked the fill
\* function as well, and this Get wrote last.
C17_Witness ==
    /\ ret.op = "Get" /\ ret.called = 1 /\ ret.found /\ ~ret.stale /\ ret.conc
    /\ ret.prev.kind = "none"
    /\ \A t \in Threads : pc[t] = "idle" /\ nops[t] = 1
    /\ hist[Default]["a"].by = ret.t
    /\ EntryOf(Default, "a").data = "X"

\* The next step of thread t reads g.fillFunc / reads g.expiration of group g
\* in Get (lines 152, 159 / 168, 169); writes g.fillFunc / g.expiration.
ReadsFillFunc(t, g) == pc[t] \in {"get_chk", "get_call"} /\ loc[t].g = g
ReadsExpiration(t, g) == pc[t] \in {"get_exp", "get_exp2"} /\ loc[t].g = g
WritesFillFunc(t, g) == pc[t] = "sf_write" /\ loc[t].g = g
WritesExpiration(t, g) == pc[t] = "sx_write" /\ loc[t].g = g

\* C18: shared state is accessed under the owning lock only, so no two
\* threads are at the same time at an access of the same map, and no Get is
\* at a read of a group's fill function or policy while a SetFillFunc or
\* SetExpiration is at its write of it.
C18_NoConcurrentAccess ==
    \A t, u \in Threads : \A g \in GroupIds :
       (t # u)
       => /\ ~(InMap(t, g) /\ InMap(u, g))
          /\ ~(InRegistry(t) /\ InRegistry(u))
          /\ ~(ReadsFillFunc(t, g) /\ WritesFillFunc(u, g))
          /\ ~(ReadsExpiration(t, g) /\ WritesExpiration(u, g))

\* The mutexes thread t holds.
Held(t) == {g \in GroupIds : mx[g] = t}

\* C19: no thread holds two mutexes, and a thread that stands before a Lock
\* or is calling the fill function holds none (GetGroupVal and SetGroupVal
\* have released the registry lock when they go on to the group's Get and
\* Set); under fair scheduling no call waits for ever, the calls a fill
\* function makes on the cache it fills included: every call returns, or the
\* process has ended with the panic of a Get that called a nil fill function.
C19_DeadlockFree ==
    /\ [](\A t \in Threads :
            /\ Cardinality(Held(t)) <= 1
            /\ (WantsGroup(t) \/ WantsRegistry(t) \/ pc[t] \in {"get_call", "get_fill"})
               => Held(t) = {})
    /\ \A t \in Threads : (pc[t] # "idle") ~> (pc[t] = "idle" \/ panicked)

\* Get("a") returned (X, true) to thread 1, the other thread not having
\* called anything: the group registered under "g1" was registered by
\* the NewGroup the fill function called from inside that Get.
C19_Witness ==
    /\ ret.op = "Get" /\ ret.t = 1 /\ ret.key = "a" /\ ret.g = Default
    /\ ret.found /\ ret.data = "X" /\ ret.called = 1
    /\ nops[2] = 0
    /\ groups["g1"] # NilGroup
====
